---- MODULE Spec2Model ----
(***************************************************************************)
(* Model of the NEST backend of PyNN: the session facade of                *)
(* pyNN/nest/__init__.py (setup, end, record, run and the delay rounding   *)
(* check) and the model reflection of pyNN/nest/cells.py (get_defaults,    *)
(* get_receptor_types, get_recordables, native_cell_type).                 *)
(*                                                                         *)
(* Conventions.  A keyword argument or dictionary entry that may be absent *)
(* is a sequence of length 0 (absent) or 1 (present, holding the value).   *)
(* Times and delays are integers in units of one tenth of a millisecond.   *)
(* Engine values are represented by their Python type name, since the      *)
(* reflection code only inspects types.                                    *)
(***************************************************************************)
EXTENDS Integers, Sequences, FiniteSets, TLC

\* ---------------------------------------------------------------- bounds
MaxSeed == 2
MaxPending == 2
MaxDirs == 2
MaxDt == 3
MaxVal == 3

VARIABLES
    \* simulator.state
    rng_seed, dt, write_on_end, tempdirs,
    \* the last facade call: its name, its seed options, the exception it
    \* raised ("none" if it returned), the warnings it emitted, and what
    \* end() wrote and removed
    lastOp, lastArgs, raised, warned, endWrites, endRemoved,
    \* history: the session seed before the last facade call
    seedBefore,
    \* the rounding check: interpreter major version, inputs, result
    py, parameters, output_values, checkResult,
    \* the engine's model registry entry and the reflection results
    known, defaults, descriptor, receptorResult, recordablesResult, reflectRaised, reflectWarned

sessionVars == <<rng_seed, dt, write_on_end, tempdirs,
                 lastOp, lastArgs, raised, warned, endWrites, endRemoved,
                 seedBefore>>
roundingVars == <<py, parameters, output_values, checkResult>>
reflectVars == <<known, defaults, descriptor, receptorResult, recordablesResult,
                 reflectRaised, reflectWarned>>
vars == <<sessionVars, roundingVars, reflectVars>>

\* ------------------------------------------------------------ utilities
Opt(S) == {<<>>} \cup {<<v>> : v \in S}
Has(o) == Len(o) > 0
Val(o) == o[1]
Range(s) == {s[i] : i \in 1..Len(s)}
SeqsUpTo(S, n) == UNION {[1..k -> S] : k \in 0..n}
Abs(x) == IF x < 0 THEN -x ELSE x

\* ================================================================ session
DEFAULT_TIMESTEP == 1
DefaultSeed == 42
Seeds == 1..MaxSeed
Populations == {"p1", "p2"}
VariableSets == {"spikes"}
Destinations == {"f1"}
PendingWrites == Populations \X VariableSets \X Destinations

\* the seed-related entries of extra_params
SeedOptions == [rng_seed : Opt(Seeds), grng_seed : Opt(Seeds),
                rng_seeds : Opt(SeqsUpTo(Seeds, 2)), rng_seeds_seed : Opt(Seeds)]
NoArgs == [rng_seed |-> <<>>, grng_seed |-> <<>>, rng_seeds |-> <<>>, rng_seeds_seed |-> <<>>]

\* extra_params['rng_seeds'][0] raises IndexError on an empty list
SeedRaises(extra) == Has(extra.rng_seeds) /\ Len(Val(extra.rng_seeds)) = 0

\* the warnings emitted by the seed resolution, up to the point it raises
SeedWarnings(extra) ==
    (IF Has(extra.grng_seed) THEN {"grng_seed"} ELSE {})
    \cup (IF Has(extra.rng_seeds) THEN {"rng_seeds"} ELSE {})
    \cup (IF Has(extra.rng_seeds_seed) /\ ~SeedRaises(extra) THEN {"rng_seeds_seed"} ELSE {})

\* variants of the seed resolution used to test the properties below
ResolveSeedElifChain(extra, prior) ==
    IF Has(extra.grng_seed) THEN Val(extra.grng_seed)
    ELSE IF Has(extra.rng_seeds) /\ ~SeedRaises(extra) THEN Val(extra.rng_seeds)[1]
    ELSE IF Has(extra.rng_seeds_seed) THEN Val(extra.rng_seeds_seed)
    ELSE IF Has(extra.rng_seed) THEN Val(extra.rng_seed) ELSE DefaultSeed
ResolveSeedKeepPrior(extra, prior) ==
    LET s1 == IF Has(extra.grng_seed) THEN Val(extra.grng_seed) ELSE prior
        s2 == IF Has(extra.rng_seeds) /\ ~SeedRaises(extra) THEN Val(extra.rng_seeds)[1] ELSE s1
    IN  IF SeedRaises(extra) THEN s1
        ELSE IF Has(extra.rng_seeds_seed) THEN Val(extra.rng_seeds_seed)
        ELSE IF Has(extra.rng_seed) THEN Val(extra.rng_seed) ELSE s2

\* lines 119-129 of setup: three independent ifs, the last with an else
ResolveSeed(extra, prior) ==
    LET s1 == IF Has(extra.grng_seed) THEN Val(extra.grng_seed) ELSE prior
        s2 == IF Has(extra.rng_seeds) /\ ~SeedRaises(extra) THEN Val(extra.rng_seeds)[1] ELSE s1
    IN  IF SeedRaises(extra) THEN s1
        ELSE IF Has(extra.rng_seeds_seed) THEN Val(extra.rng_seeds_seed)
        ELSE IF Has(extra.rng_seed) THEN Val(extra.rng_seed) ELSE DefaultSeed

SessionInit ==
    /\ rng_seed = DefaultSeed /\ dt = DEFAULT_TIMESTEP
    /\ write_on_end = <<>> /\ tempdirs = <<>>
    /\ lastOp = "none" /\ lastArgs = NoArgs /\ raised = "none" /\ warned = {}
    /\ endWrites = <<>> /\ endRemoved = <<>>
    /\ seedBefore = DefaultSeed

\* simulator.state.clear(): a bookkeeping list of the session after the reset
state_clear(list) == <<>>

\* setup(timestep, **extra_params)
Setup(timestep, extra) ==
    /\ lastOp' = "setup" /\ lastArgs' = extra
    /\ write_on_end' = state_clear(write_on_end) /\ tempdirs' = state_clear(tempdirs)
    /\ warned' = SeedWarnings(extra)
    /\ rng_seed' = ResolveSeed(extra, rng_seed)
    /\ raised' = IF SeedRaises(extra) THEN "IndexError" ELSE "none"
    /\ dt' = IF SeedRaises(extra) THEN dt ELSE timestep
    /\ endWrites' = <<>> /\ endRemoved' = <<>> /\ seedBefore' = rng_seed

\* run(duration): the simulation time is the engine's; no session field changes
Run ==
    /\ lastOp' = "run" /\ lastArgs' = NoArgs /\ raised' = "none" /\ warned' = {}
    /\ endWrites' = <<>> /\ endRemoved' = <<>> /\ seedBefore' = rng_seed
    /\ UNCHANGED <<rng_seed, dt, write_on_end, tempdirs>>

\* record(variables, source, filename)
Record(w) ==
    /\ Len(write_on_end) < MaxPending
    /\ write_on_end' = Append(write_on_end, w)
    /\ lastOp' = "record" /\ lastArgs' = NoArgs /\ raised' = "none" /\ warned' = {}
    /\ endWrites' = <<>> /\ endRemoved' = <<>> /\ seedBefore' = rng_seed
    /\ UNCHANGED <<rng_seed, dt, tempdirs>>

\* the recording layer creates a temp directory and registers it; the
\* directories of one session are named 1, 2, ... in order of creation
MakeTempdir ==
    /\ Len(tempdirs) < MaxDirs
    /\ tempdirs' = Append(tempdirs, Len(tempdirs) + 1)
    /\ lastOp' = "mktemp" /\ lastArgs' = NoArgs /\ raised' = "none" /\ warned' = {}
    /\ endWrites' = <<>> /\ endRemoved' = <<>> /\ seedBefore' = rng_seed
    /\ UNCHANGED <<rng_seed, dt, write_on_end>>

\* variant of the write loop of end() used to test the properties below
WrittenSkipLast(failW) ==
    IF failW = 0 THEN SubSeq(write_on_end, 1, Len(write_on_end) - 1)
    ELSE SubSeq(write_on_end, 1, failW - 1)

\* lines 143-146: the writes performed when the failW-th write raises
\* (failW = 0: none raises)
Written(failW) ==
    IF failW = 0 THEN write_on_end ELSE SubSeq(write_on_end, 1, failW - 1)

\* variant of the removal loop of end() used to test the properties below:
\* the directories are removed even when a write raised
RemovedAlways(failW, failR) ==
    IF failR = 0 THEN tempdirs ELSE SubSeq(tempdirs, 1, failR - 1)

\* lines 147-148: the directories removed when the failR-th rmtree raises
\* (failR = 0: none raises); none is reached when a write raised
Removed(failW, failR) ==
    IF failW # 0 THEN <<>>
    ELSE IF failR = 0 THEN tempdirs
    ELSE SubSeq(tempdirs, 1, failR - 1)

\* end(); failW / failR: which write / which rmtree meets an IO error (0: none)
End(failW, failR) ==
    LET wrote == Written(failW)
        removed == Removed(failW, failR)
        ok == failW = 0 /\ failR = 0
    IN  /\ lastOp' = "end" /\ lastArgs' = NoArgs /\ warned' = {}
        /\ endWrites' = wrote /\ endRemoved' = removed /\ seedBefore' = rng_seed
        /\ raised' = IF failW # 0 THEN "IOError" ELSE IF failR # 0 THEN "OSError" ELSE "none"
        /\ tempdirs' = IF ok THEN <<>> ELSE tempdirs
        /\ write_on_end' = IF ok THEN <<>> ELSE write_on_end
        /\ UNCHANGED <<rng_seed, dt>>

\* ================================================================ rounding
\* a parameter dictionary is the sequence of its (name, value) items in key
\* order; output_values is one number (seq = FALSE, v = <<number>>) or a
\* sequence of numbers, one per parameter in key order (seq = TRUE)
ParamNames == {"weight", "delay"}
Values == 0..MaxVal
ParamDicts ==
    {p \in SeqsUpTo(ParamNames \X Values, 2) :
        \A i, j \in 1..Len(p) : i # j => p[i][1] # p[j][1]}
OutputsFor(p) ==
    {[seq |-> FALSE, v |-> <<x>>] : x \in Values}
    \cup {[seq |-> TRUE, v |-> o] : o \in [1..Len(p) -> Values]}

Keys(p) == [i \in 1..Len(p) |-> p[i][1]]
Contains(p, name) == \E i \in 1..Len(p) : p[i][1] = name
\* list.index(name), counted from 1
Index(p, name) == CHOOSE i \in 1..Len(p) : p[i][1] = name
Get(p, name) == p[Index(p, name)][2]
get_time_step == dt
BoolStr(b) == IF b THEN "True" ELSE "False"

\* _discrepancy_due_to_rounding(parameters, output_values): the value it
\* returns, or the exception it raises.  parameters.keys() is a list under
\* Python 2 and a view without an index method under Python 3.
discrepancy_due_to_rounding(version, p, out) ==
    IF ~Contains(p, "delay") THEN "False"
    ELSE IF out.seq
         THEN IF version >= 3 THEN "AttributeError"
              ELSE BoolStr(Abs(Get(p, "delay") - out.v[Index(p, "delay")]) < get_time_step)
         ELSE BoolStr(Abs(Get(p, "delay") - out.v[1]) < get_time_step)

RoundingInitIdle ==
    /\ py = 3 /\ parameters = <<>> /\ output_values = [seq |-> FALSE, v |-> <<0>>]
    /\ checkResult = "none"

\* any call of the check, in a session whose setup chose the timestep
RoundingInit ==
    /\ py \in {2, 3}
    /\ parameters \in ParamDicts
    /\ output_values \in OutputsFor(parameters)
    /\ checkResult = "none"

DiscrepancyCheck ==
    /\ checkResult = "none"
    /\ checkResult' = discrepancy_due_to_rounding(py, parameters, output_values)
    /\ UNCHANGED <<py, parameters, output_values>>

\* ================================================================ reflection
\* cells.py line 28: the names never reported as parameters
ignore ==
    {"archiver_length", "available", "Ca", "capacity", "elementsize",
     "frozen", "instantiations", "local", "model", "needs_prelim_update",
     "recordables", "state", "t_spike", "tau_minus", "tau_minus_triplet",
     "thread", "vp", "receptor_types", "events", "global_id",
     "element_type", "type", "type_id", "has_connections", "n_synapses",
     "thread_local_id", "node_uses_wfr", "supports_precise_spikes",
     "synaptic_elements", "y_0", "y_1", "allow_offgrid_spikes", "shift_now_spikes",
     "post_trace"}
valid_types == {"int", "float", "Sequence", "ndarray"}
\* isinstance(value, classes): bool is a subclass of int
IsInstance(ty, classes) == ty \in classes \/ (ty = "bool" /\ "int" \in classes)
\* variant of the type test used to test the properties below
IsValidAny(ty) == TRUE
IsValid(ty) == IsInstance(ty, valid_types)

\* the engine's registry entry of one model: the type of each named default
\* (absent or present), the recordables, the receptor types, the element type
Names == {"V_m", "tau_m", "Ca"}
Types == {"int", "float", "bool", "Sequence", "ndarray", "str"}
RecordableLists == {<<>>, <<"V_m">>, <<"Ca">>, <<"V_m", "Ca">>, <<"g_ex", "V_m">>}
ReceptorLists == {<<>>, <<"AMPA", "NMDA">>, <<"NMDA", "AMPA">>}
ElementTypes == {"neuron", "stimulator", "recorder"}
EngineDefaults ==
    [values : [Names -> Opt(Types)], recordables : Opt(RecordableLists),
     receptor_types : Opt(ReceptorLists), element_type : ElementTypes]
NoDefaults ==
    [values |-> [n \in Names |-> <<>>], recordables |-> <<>>,
     receptor_types |-> <<>>, element_type |-> "neuron"]

\* defaults.items(): the names present and the type of each one's value
ItemNames(d) ==
    {n \in Names : Has(d.values[n])}
    \cup (IF Has(d.recordables) THEN {"recordables"} ELSE {})
    \cup (IF Has(d.receptor_types) THEN {"receptor_types"} ELSE {})
    \cup {"element_type"}
TypeOf(d, n) ==
    IF n \in Names THEN Val(d.values[n])
    ELSE IF n = "recordables" THEN "tuple"
    ELSE IF n = "receptor_types" THEN "dict"
    ELSE "SLILiteral"

\* conversion.make_pynn_compatible: arrays become Sequence objects
make_pynn_compatible(ty) == IF ty = "ndarray" THEN "Sequence" ELSE ty

\* variant of the denylist test used to test the properties below
IsIgnoredNever(name) == FALSE
IsIgnored(name) == name \in ignore
\* defaults.get('recordables', [])
Variables(d) == IF Has(d.recordables) THEN Range(Val(d.recordables)) ELSE {}

\* get_defaults(model_name): the two maps it returns and the warnings it emits
get_defaults(d) ==
    LET variables == Variables(d)
        kept == {n \in ItemNames(d) : n \notin variables /\ ~IsIgnored(n) /\ IsValid(TypeOf(d, n))}
        dropped == {n \in ItemNames(d) : n \notin variables /\ ~IsIgnored(n) /\ ~IsValid(TypeOf(d, n))}
        initial == {n \in ItemNames(d) : n \in variables}
    IN  [default_params |-> [n \in kept |-> make_pynn_compatible(TypeOf(d, n))],
         default_initial_values |-> [n \in initial |-> TypeOf(d, n)],
         warnings |-> dropped]

StandardReceptors == <<"excitatory", "inhibitory">>
\* variant of the receptor-type lookup used to test the properties below
get_receptor_types_or(d) ==
    IF Has(d.receptor_types) /\ Val(d.receptor_types) # <<>>
    THEN Val(d.receptor_types) ELSE StandardReceptors
\* get_receptor_types(model_name)
get_receptor_types(d) ==
    IF Has(d.receptor_types) THEN Val(d.receptor_types) ELSE StandardReceptors

\* get_recordables(model_name): [] when the engine raises
get_recordables(isKnown, d) ==
    IF isKnown /\ Has(d.recordables) THEN Val(d.recordables) ELSE <<>>

UNITS_MAP(var) ==
    CASE var = "spikes" -> "ms"
      [] var = "V_m" -> "mV"
      [] var \in {"I_syn_ex", "I_syn_in"} -> "pA"
      [] OTHER -> "unknown"
\* s[0] for the names the engine reports here
FirstChar(name) ==
    CASE name = "g_ex" -> "g"
      [] name = "V_m" -> "V"
      [] name = "Ca" -> "C"
      [] OTHER -> "s"

\* variant of the always_local flag used to test the properties below
IsNotRecorder(element_type) == element_type # "recorder"
\* element_type == 'stimulator'
IsStimulator(element_type) == element_type = "stimulator"

\* native_cell_type(model_name): the attributes of the class it returns
native_cell_type(d) ==
    LET g == get_defaults(d)
        receptor_types == get_receptor_types(d)
        recordable == get_recordables(TRUE, d) \o <<"spikes">>
    IN  [default_parameters |-> g.default_params,
         default_initial_values |-> g.default_initial_values,
         receptor_types |-> receptor_types,
         injectable |-> "V_m" \in DOMAIN g.default_initial_values,
         recordable |-> recordable,
         units |-> [v \in Range(recordable) |-> UNITS_MAP(v)],
         standard_receptor_type |-> receptor_types = StandardReceptors,
         conductance_based |-> \E i \in 1..Len(recordable) : FirstChar(recordable[i]) = "g",
         always_local |-> IsStimulator(d.element_type),
         uses_parrot |-> d.element_type = "stimulator"]

ReflectInitIdle ==
    /\ known = FALSE /\ defaults = NoDefaults /\ descriptor = <<>>
    /\ receptorResult = <<>> /\ recordablesResult = <<>>
    /\ reflectRaised = {} /\ reflectWarned = {}

\* any model name: one the engine rejects, or one with any registry entry
ReflectInit ==
    /\ \/ known = FALSE /\ defaults = NoDefaults
       \/ known = TRUE /\ defaults \in EngineDefaults
    /\ descriptor = <<>> /\ receptorResult = <<>> /\ recordablesResult = <<>>
    /\ reflectRaised = {} /\ reflectWarned = {}

\* a call of native_cell_type
NativeCellType ==
    /\ descriptor = <<>> /\ "native_cell_type" \notin reflectRaised
    /\ IF known
       THEN /\ descriptor' = <<native_cell_type(defaults)>>
            /\ reflectWarned' = get_defaults(defaults).warnings
            /\ UNCHANGED reflectRaised
       ELSE /\ reflectRaised' = reflectRaised \cup {"native_cell_type"}
            /\ UNCHANGED <<descriptor, reflectWarned>>
    /\ UNCHANGED <<known, defaults, receptorResult, recordablesResult>>

\* a call of get_receptor_types
GetReceptorTypes ==
    /\ receptorResult = <<>> /\ "get_receptor_types" \notin reflectRaised
    /\ IF known
       THEN receptorResult' = <<get_receptor_types(defaults)>> /\ UNCHANGED reflectRaised
       ELSE reflectRaised' = reflectRaised \cup {"get_receptor_types"} /\ UNCHANGED receptorResult
    /\ UNCHANGED <<known, defaults, descriptor, recordablesResult, reflectWarned>>

\* a call of get_recordables
GetRecordables ==
    /\ recordablesResult = <<>>
    /\ recordablesResult' = <<get_recordables(known, defaults)>>
    /\ UNCHANGED <<known, defaults, descriptor, receptorResult, reflectRaised, reflectWarned>>

\* ================================================================ specifications
Init == SessionInit /\ RoundingInitIdle /\ ReflectInitIdle
Next ==
    \/ \E extra \in SeedOptions :
          Setup(DEFAULT_TIMESTEP, extra) /\ UNCHANGED <<roundingVars, reflectVars>>
    \/ Run /\ UNCHANGED <<roundingVars, reflectVars>>
    \/ \E w \in PendingWrites : Record(w) /\ UNCHANGED <<roundingVars, reflectVars>>
    \/ MakeTempdir /\ UNCHANGED <<roundingVars, reflectVars>>
    \/ \E fw \in 0..Len(write_on_end), fr \in 0..Len(tempdirs) :
          End(fw, fr) /\ UNCHANGED <<roundingVars, reflectVars>>
Spec == Init /\ [][Next]_vars

SpecRoundingInit ==
    /\ rng_seed = DefaultSeed /\ dt \in 1..MaxDt
    /\ write_on_end = <<>> /\ tempdirs = <<>>
    /\ lastOp = "setup" /\ lastArgs = NoArgs /\ raised = "none" /\ warned = {}
    /\ endWrites = <<>> /\ endRemoved = <<>> /\ seedBefore = DefaultSeed
    /\ RoundingInit /\ ReflectInitIdle
SpecRoundingNext == DiscrepancyCheck /\ UNCHANGED <<sessionVars, reflectVars>>
SpecRounding == SpecRoundingInit /\ [][SpecRoundingNext]_vars

SpecReflectInit == SessionInit /\ RoundingInitIdle /\ ReflectInit
SpecReflectNext ==
    \/ NativeCellType /\ UNCHANGED <<sessionVars, roundingVars>>
    \/ GetReceptorTypes /\ UNCHANGED <<sessionVars, roundingVars>>
    \/ GetRecordables /\ UNCHANGED <<sessionVars, roundingVars>>
SpecReflect == SpecReflectInit /\ [][SpecReflectNext]_vars

\* ================================================================ properties
\* the seed options of the last call, by shape
OnlySeedsList(a) ==
    Has(a.rng_seeds) /\ ~Has(a.rng_seed) /\ ~Has(a.grng_seed) /\ ~Has(a.rng_seeds_seed)
OnlyGrngSeed(a) ==
    Has(a.grng_seed) /\ ~Has(a.rng_seed) /\ ~Has(a.rng_seeds) /\ ~Has(a.rng_seeds_seed)
OnlySeedsSeed(a) ==
    Has(a.rng_seeds_seed) /\ ~Has(a.rng_seed) /\ ~Has(a.rng_seeds) /\ ~Has(a.grng_seed)

\* C1: after a setup whose only seed option is a non-empty legacy list
\* rng_seeds, the session seed is the list's first element and a deprecation
\* warning was emitted, whatever the seed was before.
C1_LegacyListSeed ==
    (lastOp = "setup" /\ OnlySeedsList(lastArgs) /\ Len(Val(lastArgs.rng_seeds)) > 0)
        => (rng_seed = Val(lastArgs.rng_seeds)[1] /\ "rng_seeds" \in warned)

\* C2 (as stated): after a setup that returned and was given rng_seed=s, the
\* session seed is s, whatever deprecated seed options came with it.
C2_ExplicitSeedAlwaysWins ==
    (lastOp = "setup" /\ raised = "none" /\ Has(lastArgs.rng_seed))
        => rng_seed = Val(lastArgs.rng_seed)

\* C2 (amended): after a setup that returned and was given rng_seed=s, the
\* session seed is s for every combination of grng_seed and rng_seeds, unless
\* rng_seeds_seed=u was given too, in which case the session seed is u.
C2_ExplicitSeedUnlessSeedsSeed ==
    (lastOp = "setup" /\ raised = "none" /\ Has(lastArgs.rng_seed))
        => rng_seed = IF Has(lastArgs.rng_seeds_seed) THEN Val(lastArgs.rng_seeds_seed)
                      ELSE Val(lastArgs.rng_seed)
C2_Witness ==
    /\ lastOp = "setup" /\ raised = "none"
    /\ Has(lastArgs.rng_seed) /\ Has(lastArgs.grng_seed) /\ Has(lastArgs.rng_seeds)
    /\ ~Has(lastArgs.rng_seeds_seed)
    /\ Val(lastArgs.grng_seed) # Val(lastArgs.rng_seed)
    /\ Val(lastArgs.rng_seeds)[1] # Val(lastArgs.rng_seed)
    /\ rng_seed = Val(lastArgs.rng_seed)

\* C3: after a setup given exactly one single-valued deprecated alias
\* (grng_seed=s or rng_seeds_seed=s) and no other seed option, setup has not
\* failed, a warning was emitted and the session seed is s.
C3_AliasRemapped ==
    /\ (lastOp = "setup" /\ OnlyGrngSeed(lastArgs))
          => (raised = "none" /\ "grng_seed" \in warned /\ rng_seed = Val(lastArgs.grng_seed))
    /\ (lastOp = "setup" /\ OnlySeedsSeed(lastArgs))
          => (raised = "none" /\ "rng_seeds_seed" \in warned
              /\ rng_seed = Val(lastArgs.rng_seeds_seed))

\* C4: after a setup given no seed option at all, the session seed is 42,
\* also when the seed was different before that call.
C4_DefaultSeed ==
    (lastOp = "setup" /\ lastArgs = NoArgs) => rng_seed = 42
C4_Witness ==
    lastOp = "setup" /\ lastArgs = NoArgs /\ seedBefore # 42 /\ rng_seed = 42

\* C5: an end() that meets no error performs exactly the pending writes, one
\* per entry and in order, removes every registered temp directory and leaves
\* both lists empty; an end() right after it writes and removes nothing.
C5_EndFlushesAndClears ==
    [][(lastOp' = "end" /\ raised' = "none")
          => /\ endWrites' = write_on_end /\ endRemoved' = tempdirs
             /\ write_on_end' = <<>> /\ tempdirs' = <<>>
             /\ (lastOp = "end" /\ raised = "none"
                    => endWrites' = <<>> /\ endRemoved' = <<>>)]_vars
C5_Witness ==
    /\ lastOp = "end" /\ raised = "none"
    /\ Len(endWrites) = MaxPending /\ Len(endRemoved) = MaxDirs
    /\ write_on_end = <<>> /\ tempdirs = <<>>

\* the delay the engine realized: the single output value, or the entry of the
\* output sequence that corresponds to 'delay'
RealizedDelay ==
    IF output_values.seq THEN output_values.v[Index(parameters, "delay")]
    ELSE output_values.v[1]

\* C6: the rounding check returns without raising; it returns true when the
\* parameters hold a delay d and the realized delay d' has |d - d'| < T, for a
\* single output value as for a sequence of them, false when |d - d'| >= T, and
\* false when the parameters hold no delay.
C6_RoundingCheck ==
    checkResult # "none"
        => checkResult = IF ~Contains(parameters, "delay") THEN "False"
                         ELSE BoolStr(Abs(Get(parameters, "delay") - RealizedDelay) < dt)

\* the value types the uniform API accepts: numeric scalars (bool is one of
\* Python's integer types), numeric sequences and numeric arrays
AcceptedTypes == {"int", "bool", "float", "Sequence", "ndarray"}

\* C7: the parameter map of a descriptor holds no name of the denylist,
\* whatever the type of its value and whether or not it is a recordable.
C7_NoDenylistedParameter ==
    descriptor # <<>> => DOMAIN Val(descriptor).default_parameters \cap ignore = {}
C7_Witness ==
    /\ descriptor # <<>>
    /\ Has(defaults.values["Ca"]) /\ Val(defaults.values["Ca"]) \in valid_types
    /\ "Ca" \notin Variables(defaults)
    /\ "tau_m" \in DOMAIN Val(descriptor).default_parameters

\* C8 (as stated): every entry of the parameter map and of the initial-value
\* map has an accepted type; every parameter (a default that is neither a
\* recordable nor on the denylist) and every state variable (a default that is
\* a recordable) of another type is in neither map and was warned about.
C8_BothMapsAcceptedTypes ==
    descriptor # <<>> =>
        LET D == Val(descriptor) IN
        /\ \A n \in DOMAIN D.default_parameters : D.default_parameters[n] \in AcceptedTypes
        /\ \A n \in DOMAIN D.default_initial_values :
              D.default_initial_values[n] \in AcceptedTypes
        /\ \A n \in ItemNames(defaults) :
              ((n \in Variables(defaults) \/ n \notin ignore)
                  /\ TypeOf(defaults, n) \notin AcceptedTypes)
              => /\ n \notin DOMAIN D.default_parameters
                 /\ n \notin DOMAIN D.default_initial_values
                 /\ n \in reflectWarned

\* C8 (amended): every entry of the parameter map has an accepted type, and
\* every default that is neither a recordable nor on the denylist and has
\* another type is in neither map and was warned about; a default that is a
\* recordable is kept in the initial-value map whatever its type, without a
\* warning.
C8_ParameterMapAcceptedTypes ==
    descriptor # <<>> =>
        LET D == Val(descriptor) IN
        /\ \A n \in DOMAIN D.default_parameters : D.default_parameters[n] \in AcceptedTypes
        /\ \A n \in ItemNames(defaults) :
              (n \notin Variables(defaults) /\ n \notin ignore
                  /\ TypeOf(defaults, n) \notin AcceptedTypes)
              => /\ n \notin DOMAIN D.default_parameters
                 /\ n \notin DOMAIN D.default_initial_values
                 /\ n \in reflectWarned
        /\ \A n \in ItemNames(defaults) :
              n \in Variables(defaults)
              => /\ n \in DOMAIN D.default_initial_values
                 /\ D.default_initial_values[n] = TypeOf(defaults, n)
                 /\ n \notin reflectWarned
C8_Witness ==
    /\ descriptor # <<>>
    /\ Has(defaults.values["tau_m"]) /\ Val(defaults.values["tau_m"]) = "str"
    /\ "tau_m" \in reflectWarned
    /\ "tau_m" \notin DOMAIN Val(descriptor).default_parameters
    /\ Has(defaults.values["V_m"]) /\ Val(defaults.values["V_m"]) = "str"
    /\ "V_m" \in DOMAIN Val(descriptor).default_initial_values

\* C9 (as stated): when the engine reports no receptor-type names (no
\* receptor_types entry, or an empty one) the receptor-type list of the
\* descriptor and of get_receptor_types is [excitatory, inhibitory]; otherwise
\* it is the engine's names in the engine's order.
C9_ReceptorTypesDefaultWhenNone ==
    LET expected == IF Has(defaults.receptor_types) /\ Val(defaults.receptor_types) # <<>>
                    THEN Val(defaults.receptor_types) ELSE StandardReceptors
    IN  /\ descriptor # <<>> => Val(descriptor).receptor_types = expected
        /\ receptorResult # <<>> => Val(receptorResult) = expected

\* C9 (amended): when the engine's defaults have no receptor_types entry the
\* receptor-type list of the descriptor and of get_receptor_types is
\* [excitatory, inhibitory]; when they have one, the list is the engine's names
\* in the engine's order, which is the empty list for an empty entry.
C9_ReceptorTypesDefaultWhenAbsent ==
    LET expected == IF Has(defaults.receptor_types)
                    THEN Val(defaults.receptor_types) ELSE StandardReceptors
    IN  /\ descriptor # <<>> => Val(descriptor).receptor_types = expected
        /\ receptorResult # <<>> => Val(receptorResult) = expected
C9_Witness ==
    /\ descriptor # <<>> /\ receptorResult # <<>>
    /\ Has(defaults.receptor_types) /\ Val(defaults.receptor_types) = <<>>
    /\ Val(receptorResult) = <<>> /\ Val(descriptor).receptor_types = <<>>

\* C10: a descriptor has always_local and uses_parrot both true when the
\* engine classifies the model as a stimulator and both false otherwise; the
\* two flags never differ.
C10_StimulatorFlags ==
    descriptor # <<>> =>
        LET D == Val(descriptor) IN
        /\ D.always_local = (defaults.element_type = "stimulator")
        /\ D.uses_parrot = (defaults.element_type = "stimulator")
        /\ D.always_local = D.uses_parrot
C10_Witness ==
    /\ descriptor # <<>> /\ defaults.element_type = "stimulator"
    /\ Val(descriptor).always_local /\ Val(descriptor).uses_parrot

\* C11: within one end() no temp directory is removed unless every pending
\* write has completed; an end() in which a pending write raises propagates
\* the error having removed no temp directory, and leaves the pending-write
\* list and the temp-directory list as they were, entries already written
\* included; no end() that raises clears either list.
C11_FailedEndClearsNothing ==
    [][/\ (lastOp' = "end" /\ endRemoved' # <<>>) => endWrites' = write_on_end
       /\ (lastOp' = "end" /\ raised' = "IOError")
             => /\ endRemoved' = <<>>
                /\ Len(endWrites') < Len(write_on_end)
                /\ write_on_end' = write_on_end /\ tempdirs' = tempdirs
       /\ (lastOp' = "end" /\ raised' # "none")
             => write_on_end' = write_on_end /\ tempdirs' = tempdirs]_vars
C11_Witness ==
    /\ lastOp = "end" /\ raised = "IOError"
    /\ Len(endWrites) >= 1 /\ Len(write_on_end) = MaxPending
    /\ endWrites = SubSeq(write_on_end, 1, Len(endWrites))
    /\ Len(tempdirs) = MaxDirs /\ endRemoved = <<>>
====
